---- MODULE Spec2Model ----
(***************************************************************************)
(* A model of src/finetune.py: main(args), the DreamBooth fine-tuning      *)
(* script.  The run is a sequential program; pc is its position.  The      *)
(* command-line arguments are inputs: each action draws the arguments it   *)
(* is the first to read and records them in args, the part of the          *)
(* namespace the run has read so far.                                      *)
(*                                                                         *)
(* Five specifications share the module:                                   *)
(*   Spec        the run of main(): setup, the epoch / micro-batch loop,   *)
(*               the checkpoints (SpecE2E is the same run started in the   *)
(*               end-to-end scenario of a 10-example dataset);             *)
(*   SpecLoss    the loss computation of one micro-batch (lines 663-677);  *)
(*   SpecCollate collate_fn (lines 387-422);                               *)
(*   SpecWorkers main() run by several processes that share the file       *)
(*               system and meet in the collectives;                       *)
(*   SpecGroups  the learning rates: the parameter groups of the optimizer *)
(*               (lines 290-320) and the logged rates (lines 724-728).     *)
(***************************************************************************)
EXTENDS Integers, Sequences, FiniteSets, TLC

VARIABLES
    scenario,           \* which family of inputs the run draws from
    pc,                 \* position of main()
    err,                \* the exception that ended the run ("" if none)
    args,               \* the arguments read so far: name -> value
    train_unet,         \* line 305
    train_text_encoder, \* line 311
    ema_created,        \* whether line 485 bound ema_unet
    epoch,              \* line 623
    step,               \* line 630: index of the batch in the epoch
    acc_step,           \* accelerator.step, the accumulation counter
    end_of_dataloader,  \* set by the prepared dataloader on its last batch
    sync_gradients,     \* accelerator.sync_gradients
    global_step,        \* line 614
    gpu_work,           \* a pipeline or a model has run on the device
    forwards,           \* forward passes of the models (lines 634-653)
    micro,              \* micro-batches processed (forward + backward)
    optimizer_steps,    \* optimizer steps actually applied
    ema_steps,          \* calls of ema_unet.step that were executed
    metrics,            \* the accelerator.log calls, in order
    saves,              \* the save_weights calls that wrote, in order
    dirs,               \* directories below output_dir
    files,              \* files below output_dir
    sample_failed,      \* a sample rendering raised
    tensors,            \* SpecLoss: model_pred and target of a micro-batch
    losses,             \* SpecLoss: the losses computed from tensors
    examples,           \* SpecCollate: the dataset examples of one batch
    draws,              \* SpecCollate: what random.uniform returned, per slot
    batch,              \* SpecCollate: what collate_fn returned
    procs,              \* SpecWorkers: the locals of main() in every process
    allreduce,          \* SpecWorkers: processes waiting in the gradient all-reduce
    barrier,            \* SpecWorkers: processes waiting in wait_for_everyone
    fs_writes,          \* SpecWorkers: the writes below output_dir, by process
    params_to_optimize, \* SpecGroups: the parameter groups of the optimizer
    logs                \* SpecGroups: the learning rates of the metrics mapping

runVars == <<pc, err, args, train_unet, train_text_encoder, ema_created,
             epoch, step, acc_step, end_of_dataloader, sync_gradients,
             global_step, gpu_work, forwards, micro, optimizer_steps,
             ema_steps, metrics, saves, dirs, files, sample_failed>>
lossVars == <<tensors, losses>>
collateVars == <<examples, draws, batch>>
workerVars == <<procs, allreduce, barrier, fs_writes>>
groupVars == <<params_to_optimize, logs>>
vars == <<scenario, runVars, lossVars, collateVars, workerVars, groupVars>>

(***************************************************************************)
(* Bounds of the model.                                                    *)
(***************************************************************************)
MaxLen == 4        \* batches per epoch: 1..MaxLen
MaxEpochs == 2     \* --num_train_epochs: 1..MaxEpochs
MaxSteps == 3      \* --max_train_steps: 1..MaxSteps, or not given
MaxInterval == 2   \* --save_interval: 1..MaxInterval
MaxMinSteps == 2   \* --save_min_steps: 0..MaxMinSteps

NoArgs == [n \in {} |-> 0]

CeilDiv(a, b) == (a + b - 1) \div b

HasArg(n) == n \in DOMAIN args

(***************************************************************************)
(* The inputs of a run.  In the end-to-end scenario: a dataset of 10       *)
(* examples, batch size 1, no accumulation, max_train_steps = 5 and        *)
(* save_interval = 5.                                                      *)
(***************************************************************************)
E2E == [len |-> 10, max_train_steps |-> 5, save_interval |-> 5]

AccumulationValues ==
    IF scenario = "e2e" THEN {1}
    ELSE IF scenario = "workers" THEN {1, 2} ELSE {1, 2, 4}
LenValues == IF scenario = "e2e" THEN {E2E.len} ELSE 1..MaxLen
MaxStepsGiven == IF scenario = "e2e" THEN {TRUE} ELSE BOOLEAN
MaxStepsValues == IF scenario = "e2e" THEN {E2E.max_train_steps} ELSE 1..MaxSteps
EpochValues == 1..MaxEpochs
IntervalValues == IF scenario = "e2e" THEN {E2E.save_interval} ELSE 1..MaxInterval
MinStepsValues == 0..MaxMinSteps
PredictionTypes == {"epsilon", "v_prediction", "sample"}
Optimizers == {"AdamW8bit", "AdamW", "SGD"}
PromptTemplates == {"None", "object", "style", "scene"}

(***************************************************************************)
(* raise: the exception propagates out of main() and the process ends.     *)
(***************************************************************************)
Raise(e) ==
    /\ pc' = "error"
    /\ err' = e

(***************************************************************************)
(* Setup, lines 72-621.                                                    *)
(***************************************************************************)

\* Lines 83-87: prior preservation needs a class data directory and a
\* class prompt.
CheckPriorArgs ==
    /\ pc = "start"
    /\ \E wp \in BOOLEAN, class_data_dir \in BOOLEAN, class_prompt \in BOOLEAN :
          /\ args' = args @@ [with_prior_preservation |-> wp]
          /\ IF wp /\ ~class_data_dir
                THEN Raise("ValueError: class_data_dir")
                ELSE IF wp /\ ~class_prompt
                        THEN Raise("ValueError: class_prompt")
                        ELSE pc' = "output_dir" /\ err' = err
    /\ UNCHANGED <<scenario, train_unet, train_text_encoder, ema_created,
                   epoch, step, acc_step, end_of_dataloader, sync_gradients,
                   global_step, gpu_work, forwards, micro, optimizer_steps, ema_steps,
                   metrics, saves, dirs, files, sample_failed,
                   lossVars, collateVars, workerVars, groupVars>>

\* Lines 98-112: the accelerator, the output directory and args.yaml.
CreateOutputDir ==
    /\ pc = "output_dir"
    /\ files' = files \cup {<<"args.yaml">>}
    /\ pc' = "class_images"
    /\ UNCHANGED <<scenario, err, args, train_unet, train_text_encoder,
                   ema_created, epoch, step, acc_step, end_of_dataloader,
                   sync_gradients, global_step, gpu_work, forwards, micro,
                   optimizer_steps, ema_steps, metrics, saves, dirs,
                   sample_failed, lossVars, collateVars, workerVars, groupVars>>

\* Line 143: class images are generated when the directory holds too few.
NeedsClassImages(with_prior, cur_class_images, num_class_images) ==
    with_prior /\ cur_class_images < num_class_images

\* Lines 135-181: the pretrained pipeline renders the missing class images
\* on the device; they go to class_data_dir, outside output_dir.
GenerateClassImages ==
    /\ pc = "class_images"
    /\ \E cur \in 0..1, num \in 0..1 :
          IF NeedsClassImages(args.with_prior_preservation, cur, num)
             THEN gpu_work' = TRUE
             ELSE gpu_work' = gpu_work
    /\ pc' = "load"
    /\ UNCHANGED <<scenario, err, args, train_unet, train_text_encoder,
                   ema_created, epoch, step, acc_step, end_of_dataloader,
                   sync_gradients, global_step, forwards, micro,
                   optimizer_steps, ema_steps, metrics, saves, dirs, files,
                   sample_failed, lossVars, collateVars, workerVars, groupVars>>

\* Lines 184-244: tokenizer, text encoder, vae and unet are loaded; the
\* instance token is added (lines 201-232).  class_token_ids is the length
\* of the encoding of the class token, 0 when no class token is given.
LoadModels ==
    /\ pc = "load"
    /\ \E add_instance_token \in BOOLEAN, num_added_tokens \in 0..1,
          class_token_ids \in 0..2 :
          IF add_instance_token /\ num_added_tokens = 0
             THEN Raise("ValueError: instance_token")
             ELSE IF add_instance_token /\ class_token_ids > 1
                     THEN Raise("ValueError: class_token")
                     ELSE pc' = "trainable" /\ err' = err
    /\ UNCHANGED <<scenario, args, train_unet, train_text_encoder,
                   ema_created, epoch, step, acc_step, end_of_dataloader,
                   sync_gradients, global_step, gpu_work, forwards, micro,
                   optimizer_steps, ema_steps, metrics, saves, dirs, files,
                   sample_failed, lossVars, collateVars, workerVars, groupVars>>

\* Faulty variant of the test of line 319: the empty list is accepted.
NothingToTrainNeverRaises(unet_trainable, text_trainable) == FALSE

\* Line 319: len(params_to_optimize) == 0.  The list holds one group per
\* model that has a trainable parameter (lines 313-317).
NothingToTrain(unet_trainable, text_trainable) ==
    Len((IF unet_trainable THEN <<"unet">> ELSE <<>>)
        \o (IF text_trainable THEN <<"text_encoder">> ELSE <<>>)) = 0

\* Lines 255-320: set_trainable_parameters marks the parameters of both
\* models; u and t say whether any parameter of the unet and of the text
\* encoder came out trainable.
SetTrainable ==
    /\ pc = "trainable"
    /\ \E u \in BOOLEAN, t \in BOOLEAN :
          /\ train_unet' = u
          /\ train_text_encoder' = t
          /\ IF NothingToTrain(u, t)
                THEN Raise("ValueError: This configuration does not train anything.")
                ELSE pc' = "optimizer" /\ err' = err
    /\ UNCHANGED <<scenario, args, ema_created, epoch, step, acc_step,
                   end_of_dataloader, sync_gradients, global_step, gpu_work,
                   forwards, micro, optimizer_steps, ema_steps, metrics, saves, dirs,
                   files, sample_failed, lossVars, collateVars, workerVars, groupVars>>

\* Lines 329-351: the optimizer class.
CreateOptimizer ==
    /\ pc = "optimizer"
    /\ \E optimizer \in Optimizers, bitsandbytes \in BOOLEAN :
          IF optimizer = "AdamW8bit"
             THEN IF bitsandbytes
                     THEN pc' = "templates" /\ err' = err
                     ELSE Raise("ImportError: bitsandbytes")
             ELSE IF optimizer = "AdamW"
                     THEN pc' = "templates" /\ err' = err
                     ELSE Raise("ValueError: optimizer")
    /\ UNCHANGED <<scenario, args, train_unet, train_text_encoder,
                   ema_created, epoch, step, acc_step, end_of_dataloader,
                   sync_gradients, global_step, gpu_work, forwards, micro,
                   optimizer_steps, ema_steps, metrics, saves, dirs, files,
                   sample_failed, lossVars, collateVars, workerVars, groupVars>>

\* Lines 353-384: the noise scheduler, the prompt templates, the dataset.
SelectPromptTemplates ==
    /\ pc = "templates"
    /\ \E prompt_templates \in PromptTemplates :
          IF prompt_templates \in {"None", "object", "style"}
             THEN pc' = "prepare" /\ err' = err
             ELSE Raise("ValueError: prompt_templates")
    /\ UNCHANGED <<scenario, args, train_unet, train_text_encoder,
                   ema_created, epoch, step, acc_step, end_of_dataloader,
                   sync_gradients, global_step, gpu_work, forwards, micro,
                   optimizer_steps, ema_steps, metrics, saves, dirs, files,
                   sample_failed, lossVars, collateVars, workerVars, groupVars>>

\* Lines 430 and 494: math.ceil(len(train_dataloader) / gradient_accumulation_steps).
NumUpdateStepsPerEpoch(len, accumulation) == CeilDiv(len, accumulation)

\* Lines 431-433 and 495-496: max_train_steps as given, or derived from the
\* number of epochs.
MaxTrainSteps(given, max_steps, epochs, len, accumulation) ==
    IF given THEN max_steps
             ELSE epochs * NumUpdateStepsPerEpoch(len, accumulation)

\* Faulty variant of line 498: max_train_steps is not divided by the number
\* of update steps of an epoch.
NumTrainEpochsUndivided(max_steps, len, accumulation) == max_steps

\* Line 498: the number of epochs, recomputed from max_train_steps.
NumTrainEpochs(max_steps, len, accumulation) ==
    CeilDiv(max_steps, NumUpdateStepsPerEpoch(len, accumulation))

\* Line 484: the EMA tracker exists only if the unet is trained.
CreatesEma(use_ema, unet_trained) == use_ema /\ unet_trained

\* Lines 424-621: the dataloader, the step arithmetic, the EMA tracker,
\* global_step = 0.  The arguments the loop reads are recorded here;
\* prediction_type is the noise scheduler's configuration
\* (line 353), len the length of the prepared dataloader.
PrepareTraining ==
    /\ pc = "prepare"
    /\ \E accumulation \in AccumulationValues, len \in LenValues,
          given \in MaxStepsGiven, max_steps \in MaxStepsValues,
          epochs \in EpochValues, use_ema \in BOOLEAN,
          save_interval \in IntervalValues, save_min_steps \in MinStepsValues,
          prediction_type \in PredictionTypes :
          LET mts == MaxTrainSteps(given, max_steps, epochs, len, accumulation)
          IN  /\ args' = args @@
                    [gradient_accumulation_steps |-> accumulation,
                     len_dataloader |-> len,
                     max_train_steps |-> mts,
                     num_train_epochs |-> NumTrainEpochs(mts, len, accumulation),
                     use_ema |-> use_ema,
                     save_interval |-> save_interval,
                     save_min_steps |-> save_min_steps,
                     prediction_type |-> prediction_type]
              /\ ema_created' = CreatesEma(use_ema, train_unet)
    /\ gpu_work' = TRUE
    /\ global_step' = 0
    /\ epoch' = 0
    /\ pc' = "epoch"
    /\ UNCHANGED <<scenario, err, train_unet, train_text_encoder, step,
                   acc_step, end_of_dataloader, sync_gradients, forwards, micro,
                   optimizer_steps, ema_steps, metrics, saves, dirs, files,
                   sample_failed, lossVars, collateVars, workerVars, groupVars>>

(***************************************************************************)
(* The training loop, lines 623-742.                                       *)
(***************************************************************************)

\* Line 623: for epoch in range(args.num_train_epochs).
EpochLoop ==
    /\ pc = "epoch"
    /\ IF epoch < args.num_train_epochs
          THEN /\ step' = 0
               /\ pc' = "batch"
          ELSE /\ step' = step
               /\ pc' = "final"
    /\ UNCHANGED <<scenario, err, args, train_unet, train_text_encoder,
                   ema_created, epoch, acc_step, end_of_dataloader,
                   sync_gradients, global_step, gpu_work, forwards, micro,
                   optimizer_steps, ema_steps, metrics, saves, dirs, files,
                   sample_failed, lossVars, collateVars, workerVars, groupVars>>

\* Line 630: the prepared dataloader yields the next batch and tells the
\* accelerator whether it is the last one of the epoch.
NextBatch ==
    /\ pc = "batch"
    /\ IF step < args.len_dataloader
          THEN /\ end_of_dataloader' = (step = args.len_dataloader - 1)
               /\ pc' = "train"
          ELSE /\ end_of_dataloader' = end_of_dataloader
               /\ pc' = "epoch_end"
    /\ UNCHANGED <<scenario, err, args, train_unet, train_text_encoder,
                   ema_created, epoch, step, acc_step, sync_gradients,
                   global_step, gpu_work, forwards, micro, optimizer_steps, ema_steps,
                   metrics, saves, dirs, files, sample_failed,
                   lossVars, collateVars, workerVars, groupVars>>

\* Faulty variant of accumulate: no synchronization at the end of the
\* dataloader.
SyncEveryNthOnly(counter, at_end, accumulation) ==
    (counter + 1) % accumulation = 0

\* Line 632, accelerator.accumulate: gradients synchronize on the last
\* batch of the dataloader and on every gradient_accumulation_steps-th
\* micro-batch since the last reset of the counter.
SyncNow(counter, at_end, accumulation) ==
    at_end \/ (counter + 1) % accumulation = 0

\* Line 632: the accumulation counter after this micro-batch.
NextAccStep(counter, at_end) == IF at_end THEN 0 ELSE counter + 1

\* Lines 656-661: the objectives the loop knows.
KnownPredictionType(t) == t \in {"epsilon", "v_prediction"}

\* Lines 691-692: the EMA tracker is stepped on this micro-batch.
EmaStepsNow(use_ema, synced) == use_ema

\* Lines 632-706: one micro-batch: forward, loss, backward, optimizer,
\* scheduler, EMA.  The wrapped optimizer and scheduler step only when
\* gradients synchronized; line 692 refers to ema_unet whenever use_ema.
TrainStep ==
    /\ pc = "train"
    /\ LET sync == SyncNow(acc_step, end_of_dataloader,
                           args.gradient_accumulation_steps)
       IN  /\ sync_gradients' = sync
           /\ acc_step' = NextAccStep(acc_step, end_of_dataloader)
           /\ forwards' = forwards + 1
           /\ IF ~KnownPredictionType(args.prediction_type)
                 THEN /\ Raise("ValueError: Unknown prediction type")
                      /\ UNCHANGED <<micro, optimizer_steps, ema_steps>>
                 ELSE /\ micro' = micro + 1
                      /\ optimizer_steps' = optimizer_steps + (IF sync THEN 1 ELSE 0)
                      /\ IF EmaStepsNow(args.use_ema, sync)
                            THEN IF ema_created
                                    THEN /\ ema_steps' = ema_steps + 1
                                         /\ pc' = "sync"
                                         /\ err' = err
                                    ELSE /\ ema_steps' = ema_steps
                                         /\ Raise("NameError: ema_unet")
                            ELSE /\ ema_steps' = ema_steps
                                 /\ pc' = "sync"
                                 /\ err' = err
    /\ UNCHANGED <<scenario, args, train_unet, train_text_encoder,
                   ema_created, epoch, step, end_of_dataloader, global_step,
                   gpu_work, metrics, saves, dirs, files, sample_failed,
                   lossVars, collateVars, workerVars, groupVars>>

\* Faulty variant of the test of line 713: save_min_steps is not tested.
SaveDueIgnoringMinSteps(gs, save_interval, save_min_steps) ==
    gs > 0 /\ gs % save_interval = 0

\* Line 713: the in-loop checkpoint is due.
SaveDue(gs, save_interval, save_min_steps) ==
    gs > 0 /\ gs % save_interval = 0 /\ gs >= save_min_steps

\* Lines 709-714: after a synchronized micro-batch global_step advances and
\* the checkpoint cadence is tested.
SyncStep ==
    /\ pc = "sync"
    /\ IF sync_gradients
          THEN /\ global_step' = global_step + 1
               /\ pc' = IF SaveDue(global_step + 1, args.save_interval,
                                   args.save_min_steps)
                           THEN "save" ELSE "log"
          ELSE /\ global_step' = global_step
               /\ pc' = "log"
    /\ UNCHANGED <<scenario, err, args, train_unet, train_text_encoder,
                   ema_created, epoch, step, acc_step, end_of_dataloader,
                   sync_gradients, gpu_work, forwards, micro,
                   optimizer_steps, ema_steps, metrics, saves, dirs, files,
                   sample_failed, lossVars, collateVars, workerVars, groupVars>>

\* Line 519: save_dir = os.path.join(args.output_dir, f"{step}").
SaveDir(s) == ToString(s)

\* Line 559: the test that selects the adapter branch of save_weights.
LoraBranch(lora_unet_layer, lora_text_layer) ==
    lora_unet_layer \/ lora_unet_layer

\* Lines 559-578: the weight files a checkpoint writes into save_dir.  The
\* adapter branch only rescales the adapters (save_lora_weight is commented
\* out, lines 561-572); the other branch is pipeline.save_pretrained.
WeightFiles(d, lora_unet_layer, lora_text_layer) ==
    IF LoraBranch(lora_unet_layer, lora_text_layer)
       THEN {}
       ELSE {<<d, "unet", "diffusion_pytorch_model.bin">>,
             <<d, "text_encoder", "pytorch_model.bin">>}

\* Line 604: the contact sheet of a checkpoint.
SampleFile(d) == <<d, "samples", d, ".jpg">>

\* The arguments save_weights reads, recorded by the first checkpoint:
\* whether --lora_unet_layer and --lora_text_layer are given, and
\* --save_n_sample.
SaveArgs(lora_unet_layer, lora_text_layer, save_n_sample) ==
    IF HasArg("save_n_sample")
       THEN args
       ELSE args @@ [lora_unet_layer |-> lora_unet_layer,
                     lora_text_layer |-> lora_text_layer,
                     save_n_sample |-> save_n_sample]

\* Lines 516-609, save_weights(step) on the main process; after it, main
\* continues at next.  The pipeline is assembled (line 543 refers to
\* ema_unet whenever use_ema), the weights are written, then the samples are
\* rendered; rendered says whether the rendering succeeded.  Nothing in
\* save_weights or around its calls catches an exception.
SaveWeights(s, kind, next) ==
    \E lora_unet_layer \in BOOLEAN, lora_text_layer \in BOOLEAN,
       save_n_sample \in 0..1, rendered \in BOOLEAN :
       LET d == SaveDir(s)
           a == SaveArgs(lora_unet_layer, lora_text_layer, save_n_sample)
           written == files \cup WeightFiles(d, a.lora_unet_layer,
                                             a.lora_text_layer)
       IN  /\ args' = a
           /\ saves' = Append(saves, [step |-> s, micro |-> micro,
                                      kind |-> kind,
                                      synced |-> sync_gradients])
           /\ IF a.use_ema /\ ~ema_created
                 THEN /\ dirs' = dirs \cup {<<d>>}
                      /\ Raise("NameError: ema_unet")
                      /\ UNCHANGED <<files, sample_failed>>
                 ELSE IF a.save_n_sample > 0
                         THEN /\ dirs' = dirs \cup {<<d>>, <<d, "samples">>}
                              /\ IF rendered
                                    THEN /\ files' = written \cup {SampleFile(d)}
                                         /\ sample_failed' = sample_failed
                                         /\ pc' = next
                                         /\ err' = err
                                    ELSE /\ files' = written
                                         /\ sample_failed' = TRUE
                                         /\ Raise("RuntimeError: sample generation")
                         ELSE /\ dirs' = dirs \cup {<<d>>}
                              /\ files' = written
                              /\ sample_failed' = sample_failed
                              /\ pc' = next
                              /\ err' = err

\* Line 714: the in-loop checkpoint.
SaveInLoop ==
    /\ pc = "save"
    /\ SaveWeights(global_step, "loop", "log")
    /\ UNCHANGED <<scenario, train_unet, train_text_encoder,
                   ema_created, epoch, step, acc_step, end_of_dataloader,
                   sync_gradients, global_step, gpu_work, forwards, micro,
                   optimizer_steps, ema_steps, metrics, lossVars, collateVars, workerVars, groupVars>>

\* Lines 716-734: the keys of the metrics mapping.
LogKeys ==
    (IF args.with_prior_preservation
        THEN {"Loss/pred", "Loss/prior", "Loss/total"}
        ELSE {"Loss/pred"})
    \cup (IF train_unet /\ train_text_encoder
             THEN {"lr/unet", "lr/text"} ELSE {"lr"})
    \cup (IF args.use_ema THEN {"ema_decay"} ELSE {})

\* Faulty variant of the test of line 739: the loop leaves one step late.
MaxStepsExceeded(gs, max_steps) == gs > max_steps

\* Line 739: the loop leaves the epoch.
MaxStepsReached(gs, max_steps) == gs >= max_steps

\* Lines 716-740: the metrics of the micro-batch are logged (line 734 refers
\* to ema_unet whenever use_ema), then the max-step test.
LogMetrics ==
    /\ pc = "log"
    /\ IF args.use_ema /\ ~ema_created
          THEN /\ Raise("NameError: ema_unet")
               /\ UNCHANGED <<metrics, step>>
          ELSE /\ metrics' = Append(metrics, [step |-> global_step,
                                               micro |-> micro,
                                               keys |-> LogKeys])
               /\ err' = err
               /\ IF MaxStepsReached(global_step, args.max_train_steps)
                     THEN /\ pc' = "epoch_end"
                          /\ step' = step
                     ELSE /\ pc' = "batch"
                          /\ step' = step + 1
    /\ UNCHANGED <<scenario, args, train_unet, train_text_encoder,
                   ema_created, epoch, acc_step, end_of_dataloader,
                   sync_gradients, global_step, gpu_work, forwards, micro,
                   optimizer_steps, ema_steps, saves, dirs, files,
                   sample_failed, lossVars, collateVars, workerVars, groupVars>>

\* Line 742: accelerator.wait_for_everyone(), then the next epoch.
EpochEnd ==
    /\ pc = "epoch_end"
    /\ epoch' = epoch + 1
    /\ pc' = "epoch"
    /\ UNCHANGED <<scenario, err, args, train_unet, train_text_encoder,
                   ema_created, step, acc_step, end_of_dataloader,
                   sync_gradients, global_step, gpu_work, forwards, micro,
                   optimizer_steps, ema_steps, metrics, saves, dirs, files,
                   sample_failed, lossVars, collateVars, workerVars, groupVars>>

\* Lines 744-745: the final checkpoint.
FinalSave ==
    /\ pc = "final"
    /\ SaveWeights(global_step, "final", "end")
    /\ UNCHANGED <<scenario, train_unet, train_text_encoder,
                   ema_created, epoch, step, acc_step, end_of_dataloader,
                   sync_gradients, global_step, gpu_work, forwards, micro,
                   optimizer_steps, ema_steps, metrics, lossVars, collateVars, workerVars, groupVars>>

\* Line 747: accelerator.end_training().
EndTraining ==
    /\ pc = "end"
    /\ pc' = "done"
    /\ UNCHANGED <<scenario, err, args, train_unet, train_text_encoder,
                   ema_created, epoch, step, acc_step, end_of_dataloader,
                   sync_gradients, global_step, gpu_work, forwards, micro,
                   optimizer_steps, ema_steps, metrics, saves, dirs, files,
                   sample_failed, lossVars, collateVars, workerVars, groupVars>>

(***************************************************************************)
(* The run of main().                                                      *)
(***************************************************************************)
\* The locals of main() and the observations of the run before main() starts.
IdleRun ==
    /\ err = ""
    /\ train_unet = FALSE
    /\ train_text_encoder = FALSE
    /\ ema_created = FALSE
    /\ epoch = 0
    /\ step = 0
    /\ acc_step = 0
    /\ end_of_dataloader = FALSE
    /\ sync_gradients = FALSE
    /\ global_step = 0
    /\ gpu_work = FALSE
    /\ forwards = 0
    /\ micro = 0
    /\ optimizer_steps = 0
    /\ ema_steps = 0
    /\ metrics = <<>>
    /\ saves = <<>>
    /\ dirs = {}
    /\ files = {}
    /\ sample_failed = FALSE

InitRun ==
    /\ pc = "start"
    /\ args = NoArgs
    /\ IdleRun

IdleLoss == tensors = <<>> /\ losses = <<>>
IdleCollate == examples = <<>> /\ draws = <<>> /\ batch = <<>>
IdleWorkers ==
    /\ procs = <<>>
    /\ allreduce = {}
    /\ barrier = {}
    /\ fs_writes = {}
IdleGroups == params_to_optimize = <<>> /\ logs = <<>>

Init ==
    /\ scenario = "any"
    /\ InitRun
    /\ IdleLoss
    /\ IdleCollate
    /\ IdleWorkers
    /\ IdleGroups

InitE2E ==
    /\ scenario = "e2e"
    /\ InitRun
    /\ IdleLoss
    /\ IdleCollate
    /\ IdleWorkers
    /\ IdleGroups

Next ==
    \/ CheckPriorArgs
    \/ CreateOutputDir
    \/ GenerateClassImages
    \/ LoadModels
    \/ SetTrainable
    \/ CreateOptimizer
    \/ SelectPromptTemplates
    \/ PrepareTraining
    \/ EpochLoop
    \/ NextBatch
    \/ TrainStep
    \/ SyncStep
    \/ SaveInLoop
    \/ LogMetrics
    \/ EpochEnd
    \/ FinalSave
    \/ EndTraining

Spec == Init /\ [][Next]_vars

SpecE2E == InitE2E /\ [][Next]_vars

\* main() is a sequential program: as long as a statement remains, the
\* process executes it.
SpecFair == Init /\ [][Next]_vars /\ WF_vars(Next)

(***************************************************************************)
(* Properties of the run.                                                  *)
(***************************************************************************)
BeforeTrainablePcs == {"start", "output_dir", "class_images", "load", "trainable"}
LoopPcs == {"batch", "train", "sync", "save", "log"}
AfterLoopPcs == {"final", "end", "done"}

NoTrainError == "ValueError: This configuration does not train anything."
ErrorsBeforeTrainable ==
    {"ValueError: class_data_dir", "ValueError: class_prompt",
     "ValueError: instance_token", "ValueError: class_token"}
SetupRejections ==
    {NoTrainError, "ValueError: optimizer", "ValueError: prompt_templates",
     "ValueError: class_data_dir", "ValueError: class_prompt"}

NoStepExecuted ==
    /\ forwards = 0
    /\ micro = 0
    /\ optimizer_steps = 0
    /\ global_step = 0
    /\ saves = <<>>
    /\ dirs = {}

\* C1: whenever neither model has a trainable parameter, the run is still in
\* the setup before the trainable-parameter test or has failed there with the
\* configuration error, and no forward, backward, optimizer step or
\* checkpoint has been executed.
C1_NoTrainableFailsAtSetup ==
    (~train_unet /\ ~train_text_encoder) =>
        /\ pc \in BeforeTrainablePcs \cup {"error"}
        /\ pc = "error" => err \in ErrorsBeforeTrainable \cup {NoTrainError}
        /\ NoStepExecuted

C1_Witness ==
    /\ pc = "error"
    /\ err = NoTrainError
    /\ ~train_unet /\ ~train_text_encoder

\* Micro-batches of the current epoch that have passed lines 709-714.
CompletedInEpoch == IF pc \in {"save", "log"} THEN step + 1 ELSE step

\* C2 as stated: global_step is the number of complete groups of
\* gradient_accumulation_steps micro-batches processed so far.
C2_OneStepPerFullGroup ==
    pc \in {"batch", "save", "log"} =>
        global_step = micro \div args.gradient_accumulation_steps

\* Synchronizations among the first k micro-batches of an epoch.
SyncsAmong(k) ==
    IF k = args.len_dataloader
       THEN CeilDiv(args.len_dataloader, args.gradient_accumulation_steps)
       ELSE k \div args.gradient_accumulation_steps

\* C2 (amended): global_step advances by one exactly on the micro-batches that
\* close an accumulation group: every gradient_accumulation_steps-th
\* micro-batch of an epoch and the last micro-batch of the epoch, which
\* closes a shorter group when the length is not divisible.
C2_OneStepPerClosedGroup ==
    pc \in LoopPcs =>
        global_step =
            epoch * CeilDiv(args.len_dataloader, args.gradient_accumulation_steps)
            + SyncsAmong(CompletedInEpoch)

C2_Witness ==
    /\ pc = "log"
    /\ args.gradient_accumulation_steps = 2
    /\ args.len_dataloader = 3
    /\ epoch = 1
    /\ step = 2
    /\ global_step = 4

StepDirs == {d \in dirs : Len(d) = 1}
IsWeightFile(f) == Len(f) = 3 /\ f[2] \in {"unet", "text_encoder", "lora"}
HasWeights(d) == \E f \in files : f[1] = d[1] /\ IsWeightFile(f)
SamplesOf(d) == {f \in files : f[1] = d[1] /\ Len(f) = 4 /\ f[2] = "samples"}

\* C3: the end-to-end run of the 10-example scenario ends with exactly one
\* checkpoint directory, named 5, that holds weight files and, when
\* save_n_sample > 0, exactly the contact sheet samples/5.jpg.
C3_EndToEndCheckpoint ==
    pc = "done" =>
        /\ StepDirs = {<<"5">>}
        /\ HasWeights(<<"5">>)
        /\ args.save_n_sample > 0 =>
              SamplesOf(<<"5">>) = {<<"5", "samples", "5", ".jpg">>}

LoopSaveAt(m) ==
    \E i \in DOMAIN saves : saves[i].kind = "loop" /\ saves[i].micro = m

\* C4: after lines 709-714 of a micro-batch, an in-loop checkpoint was taken
\* on it iff it synchronized and global_step is positive, a multiple of
\* save_interval and at least save_min_steps; every in-loop checkpoint was
\* taken on a synchronized micro-batch, and no two for the same global_step.
C4_InLoopCadence ==
    /\ pc = "log" =>
          (LoopSaveAt(micro) <=>
              /\ sync_gradients
              /\ global_step > 0
              /\ global_step % args.save_interval = 0
              /\ global_step >= args.save_min_steps)
    /\ \A i \in DOMAIN saves :
          saves[i].kind = "loop" =>
              /\ saves[i].synced
              /\ saves[i].step > 0
              /\ saves[i].step % args.save_interval = 0
              /\ saves[i].step >= args.save_min_steps
              /\ \A j \in DOMAIN saves :
                    (saves[j].kind = "loop" /\ saves[j].step = saves[i].step)
                        => i = j

C4_Witness ==
    /\ pc = "log"
    /\ LoopSaveAt(micro)
    /\ args.save_min_steps = 2
    /\ args.gradient_accumulation_steps = 2
    /\ Len(saves) = 1

\* C5: every checkpoint save that finished left weights in its step directory.
C5_CheckpointHasWeights ==
    pc # "error" => \A d \in StepDirs : HasWeights(d)

\* C6: a failure of the sample rendering is not fatal: the run is not ended
\* by it.
C6_SampleFailureNotFatal ==
    sample_failed => pc # "error"

\* C7: a rejection by the setup happens before any work on the device.
C7_RejectedBeforeGpuWork ==
    (pc = "error" /\ err \in SetupRejections) => ~gpu_work

\* C10: between micro-batches, the number of metric emissions equals
\* global_step.
C10_OneEmissionPerStep ==
    pc \in {"batch", "epoch_end", "epoch"} \cup AfterLoopPcs =>
        Len(metrics) = global_step

\* C13: with EMA enabled, between micro-batches the EMA tracker has been
\* stepped exactly global_step times: once per synchronized micro-batch and
\* never on a micro-batch that only accumulated.
C13_EmaStepsOncePerBoundary ==
    (/\ pc \in {"batch", "epoch_end", "epoch"} \cup AfterLoopPcs
     /\ HasArg("use_ema")
     /\ args.use_ema) =>
        ema_steps = global_step

\* C15: no two save operations of a run write into the directory of the same
\* step.
C15_OneSavePerStepDir ==
    \A i \in DOMAIN saves : \A j \in DOMAIN saves :
        SaveDir(saves[i].step) = SaveDir(saves[j].step) => i = j

\* C16: when the run is ended by the rejection of an unknown prediction
\* type, no batch has been pulled from the dataloader and no forward pass
\* has run.
C16_UnknownObjectiveBeforeTraining ==
    (pc = "error" /\ err = "ValueError: Unknown prediction type") =>
        /\ forwards = 0
        /\ epoch = 0 /\ step = 0 /\ ~end_of_dataloader

LeavesOnlyWhenSynchronized ==
    (pc = "log" /\ MaxStepsReached(global_step, args.max_train_steps))
        => sync_gradients

NothingPendingAtExit ==
    (pc \in {"epoch_end"} \cup AfterLoopPcs /\ micro > 0)
        => (sync_gradients /\ optimizer_steps = global_step)

\* C20: the loop leaves on the max-step test only on a micro-batch that
\* synchronized; whenever the loop has been left, the last micro-batch
\* synchronized, so no partially accumulated group is pending; and from a
\* state with global_step >= max_train_steps no step processes a micro-batch,
\* in the current epoch or a later one.
C20_AtomicGroupsAtExit ==
    /\ [](LeavesOnlyWhenSynchronized /\ NothingPendingAtExit)
    /\ [][(HasArg("max_train_steps")
             /\ global_step >= args.max_train_steps)
            => (micro' = micro /\ forwards' = forwards)]_vars

C20_Witness ==
    /\ pc = "done"
    /\ args.gradient_accumulation_steps = 2
    /\ args.len_dataloader = 4
    /\ args.max_train_steps = 1
    /\ global_step = 1
    /\ micro = 2

\* The run has passed the setup: the loop is about to start or has started.
PassedSetup == pc = "epoch" /\ epoch = 0

CompletedOnlyWhenExhausted ==
    pc = "done" =>
        \/ global_step >= args.max_train_steps
        \/ epoch >= args.num_train_epochs

\* C21: every run that has passed the setup eventually reaches the terminal
\* state of a completed run, and it is in that state only with
\* global_step >= max_train_steps or with all epochs exhausted.
C21_PassedSetupCompletes ==
    /\ PassedSetup ~> (pc = "done")
    /\ []CompletedOnlyWhenExhausted

\* C22: the run is never ended by a reference to an EMA tracker that was not
\* created, and the tracker is stepped only if it exists.
C22_EmaUsedOnlyIfCreated ==
    /\ err # "NameError: ema_unet"
    /\ ema_steps > 0 => ema_created

\* C23: once max_train_steps is known, 0 <= global_step <= max_train_steps,
\* and no more optimizer steps than max_train_steps have been applied.
C23_GlobalStepWithinMaxSteps ==
    HasArg("max_train_steps") =>
        /\ 0 <= global_step
        /\ global_step <= args.max_train_steps
        /\ optimizer_steps <= args.max_train_steps

C23_Witness ==
    /\ pc = "epoch_end"
    /\ epoch = 1
    /\ args.num_train_epochs = 2
    /\ args.len_dataloader = 4
    /\ args.gradient_accumulation_steps = 2
    /\ args.max_train_steps = 3
    /\ global_step = 3
    /\ step = 1

(***************************************************************************)
(* The loss of one micro-batch, lines 663-677.  A tensor is a sequence of  *)
(* examples (the batch axis), an example the sequence of its elements.     *)
(* Means are exact rationals <<numerator, denominator>>.                   *)
(***************************************************************************)
MaxVal == 1   \* tensor elements: 0..MaxVal

Rat(n, d) == <<n, d>>
RAdd(a, b) == <<a[1] * b[2] + b[1] * a[2], a[2] * b[2]>>
RMul(a, b) == <<a[1] * b[1], a[2] * b[2]>>
RDivInt(a, k) == <<a[1], a[2] * k>>
REq(a, b) == a[1] * b[2] = b[1] * a[2]

RECURSIVE SumSeq(_)
SumSeq(x) == IF x = <<>> THEN 0 ELSE Head(x) + SumSeq(Tail(x))

RECURSIVE RSumSeq(_)
RSumSeq(x) == IF x = <<>> THEN Rat(0, 1) ELSE RAdd(Head(x), RSumSeq(Tail(x)))

RECURSIVE Flatten(_)
Flatten(x) == IF x = <<>> THEN <<>> ELSE Head(x) \o Flatten(Tail(x))

\* F.mse_loss(input, target, reduction="none"): the squared differences.
MseNone(input, target) ==
    [i \in DOMAIN input |->
        [e \in DOMAIN input[i] |->
            (input[i][e] - target[i][e]) * (input[i][e] - target[i][e])]]

\* F.mse_loss(input, target, reduction="mean"): the mean over all elements.
MseMean(input, target) ==
    LET sq == Flatten(MseNone(input, target))
    IN  Rat(SumSeq(sq), Len(sq))

\* .mean([1, 2, 3]): the mean of every example over its elements.
MeanPerExample(x) == [i \in DOMAIN x |-> Rat(SumSeq(x[i]), Len(x[i]))]

\* .mean() of a vector.
MeanOf(v) == RDivInt(RSumSeq(v), Len(v))

\* Faulty variant of the split: the halves are exchanged.
ChunkSecondHalfFirst(x) ==
    LET size == CeilDiv(Len(x), 2)
    IN  <<SubSeq(x, size + 1, Len(x)), SubSeq(x, 1, size)>>

\* Lines 665-666, torch.chunk(x, 2, dim=0): the first ceil(len/2) examples
\* and the rest.
Chunk(x) ==
    LET size == CeilDiv(Len(x), 2)
    IN  <<SubSeq(x, 1, size), SubSeq(x, size + 1, Len(x))>>

\* Lines 663-677: the losses of a micro-batch.
ComputeLosses(model_pred, target, with_prior_preservation, prior_loss_weight) ==
    IF with_prior_preservation
       THEN LET pred == Chunk(model_pred)
                tgt == Chunk(target)
                pred_loss == MeanOf(MeanPerExample(MseNone(pred[1], tgt[1])))
                prior_loss == MseMean(pred[2], tgt[2])
            IN  [pred_loss |-> pred_loss,
                 prior_loss |-> prior_loss,
                 loss |-> RAdd(pred_loss, RMul(prior_loss_weight, prior_loss))]
       ELSE [loss |-> MseMean(model_pred, target)]

\* Lines 663-677 as a step: the losses of the micro-batch in tensors.
ComputeLoss ==
    /\ pc = "loss"
    /\ losses' = ComputeLosses(tensors.model_pred, tensors.target,
                               args.with_prior_preservation,
                               args.prior_loss_weight)
    /\ pc' = "loss_done"
    /\ UNCHANGED <<scenario, err, args, train_unet, train_text_encoder,
                   ema_created, epoch, step, acc_step, end_of_dataloader,
                   sync_gradients, global_step, gpu_work, forwards, micro,
                   optimizer_steps, ema_steps, metrics, saves, dirs, files,
                   sample_failed, tensors, collateVars,
                   workerVars, groupVars>>

\* --prior_loss_weight: 0, 1 and 2.5.
PriorWeights == {Rat(0, 1), Rat(1, 1), Rat(5, 2)}
\* Examples the dataloader hands to collate_fn per batch.
BatchSizes == {1, 2}
\* Elements of an example (channels x height x width, flattened).
Elems == 1..2
Values == 0..MaxVal

\* A micro-batch: with prior preservation the batch holds the instance
\* examples followed by as many class examples (lines 393-395).  The loss
\* reads the tensors only through their elementwise difference, so the
\* target is taken constant.
InitLoss ==
    /\ scenario = "loss"
    /\ pc = "loss"
    /\ IdleRun
    /\ IdleCollate
    /\ IdleWorkers
    /\ IdleGroups
    /\ losses = <<>>
    /\ \E wp \in BOOLEAN, w \in PriorWeights, n \in BatchSizes, t \in Values :
          LET B == IF wp THEN 2 * n ELSE n
          IN  /\ args = [with_prior_preservation |-> wp, prior_loss_weight |-> w]
              /\ \E p \in [1..B -> [Elems -> Values]] :
                    tensors = [model_pred |-> p,
                               target |-> [i \in 1..B |-> [e \in Elems |-> t]]]

NextLoss == ComputeLoss

SpecLoss == InitLoss /\ [][NextLoss]_vars

\* Sum of the squared differences of the examples lo..hi.
RECURSIVE SquaredError(_, _)
SquaredError(lo, hi) ==
    IF lo > hi
       THEN 0
       ELSE SumSeq([e \in Elems |->
                      (tensors.model_pred[lo][e] - tensors.target[lo][e])
                      * (tensors.model_pred[lo][e] - tensors.target[lo][e])])
            + SquaredError(lo + 1, hi)

\* Mean over the examples lo..hi of the mean squared error of each.
RECURSIVE SumOfExampleMeans(_, _)
SumOfExampleMeans(lo, hi) ==
    IF lo > hi
       THEN Rat(0, 1)
       ELSE RAdd(Rat(SquaredError(lo, lo), Cardinality(Elems)),
                 SumOfExampleMeans(lo + 1, hi))

\* C8: without prior preservation the loss is the mean squared error over
\* all elements; with it, pred_loss is the mean over the instance examples
\* (the first half) of their mean squared errors, prior_loss the mean squared
\* error over the second half, and loss = pred_loss + weight * prior_loss.
C8_LossFormula ==
    pc = "loss_done" =>
        LET B == Len(tensors.model_pred)
            n == B \div 2
            E == Cardinality(Elems)
        IN  IF args.with_prior_preservation
               THEN /\ REq(losses.pred_loss,
                           RDivInt(SumOfExampleMeans(1, n), n))
                    /\ REq(losses.prior_loss,
                           Rat(SquaredError(n + 1, B), n * E))
                    /\ REq(losses.loss,
                           RAdd(losses.pred_loss,
                                RMul(args.prior_loss_weight, losses.prior_loss)))
                    /\ REq(losses.loss,
                           RAdd(RDivInt(SumOfExampleMeans(1, n), n),
                                RMul(args.prior_loss_weight,
                                     Rat(SquaredError(n + 1, B), n * E))))
               ELSE /\ REq(losses.loss, Rat(SquaredError(1, B), B * E))
                    /\ DOMAIN losses = {"loss"}

C8_Witness ==
    /\ pc = "loss_done"
    /\ args.with_prior_preservation
    /\ args.prior_loss_weight = Rat(5, 2)
    /\ Len(tensors.model_pred) = 4
    /\ ~REq(losses.pred_loss, losses.prior_loss)
    /\ ~REq(losses.prior_loss, Rat(0, 1))
    /\ ~REq(losses.pred_loss, Rat(0, 1))

(***************************************************************************)
(* collate_fn, lines 387-422.  Token ids are sequences of tokens; a        *)
(* probability is a multiple of 1/Resolution.                              *)
(***************************************************************************)
Resolution == 2       \* probabilities: 0/Resolution .. Resolution/Resolution
ModelMaxLength == 3   \* tokenizer.model_max_length

Probabilities == 0..Resolution

\* Lines 407-412, tokenizer.pad(padding="max_length"): every sequence is
\* filled with the pad token up to max_length.
Pad(ids) == ids \o [k \in 1..(ModelMaxLength - Len(ids)) |-> "<pad>"]

\* Faulty variant of line 398: the loop also runs for probability 0.
DropoutAlwaysEnabled(prob) == TRUE

\* Line 398: the dropout loop runs.
DropoutEnabled(prob) == prob > 0

\* Line 401: random.uniform(0.0, 1.0) <= args.conditioning_dropout_prob.
Dropped(r, prob) == r <= prob

\* Faulty variant of lines 388-395: the class examples come first.
ConcatClassFirst(exs, with_prior, instance_field, class_field) ==
    (IF with_prior THEN [i \in DOMAIN exs |-> exs[i][class_field]]
                   ELSE <<>>)
    \o [i \in DOMAIN exs |-> exs[i][instance_field]]

\* Lines 388-395: the instance examples, then (prior preservation) the
\* class examples.
Concat(exs, with_prior, instance_field, class_field) ==
    [i \in DOMAIN exs |-> exs[i][instance_field]]
    \o (IF with_prior THEN [i \in DOMAIN exs |-> exs[i][class_field]]
                      ELSE <<>>)

\* Lines 398-402: the conditioning dropout over the slots of input_ids; r
\* holds the value random.uniform returns for each slot.
Dropout(input_ids, exs, prob, r) ==
    IF DropoutEnabled(prob)
       THEN LET unconditional_ids ==
                    [i \in DOMAIN exs |-> exs[i].unconditional_prompt_ids]
                    \o [i \in DOMAIN exs |-> exs[i].unconditional_prompt_ids]
            IN  [i \in DOMAIN input_ids |->
                    IF Dropped(r[i], prob) THEN unconditional_ids[i]
                                           ELSE input_ids[i]]
       ELSE input_ids

\* Lines 387-422, collate_fn(examples).
CollateFn(exs, with_prior, prob, r) ==
    LET input_ids == Concat(exs, with_prior, "instance_prompt_ids",
                            "class_prompt_ids")
        pixel_values == Concat(exs, with_prior, "instance_images",
                               "class_images")
        after == Dropout(input_ids, exs, prob, r)
    IN  [input_ids |-> [i \in DOMAIN after |-> Pad(after[i])],
         pixel_values |-> pixel_values]

\* The dataloader calls collate_fn on the examples of a batch.
Collate ==
    /\ pc = "collate"
    /\ LET slots == IF args.with_prior_preservation
                       THEN 2 * Len(examples) ELSE Len(examples)
       IN  \E r \in [1..slots -> Probabilities] :
              /\ draws' = (IF DropoutEnabled(args.conditioning_dropout_prob)
                              THEN r ELSE <<>>)
              /\ batch' = CollateFn(examples, args.with_prior_preservation,
                                    args.conditioning_dropout_prob, r)
    /\ pc' = "collated"
    /\ UNCHANGED <<scenario, err, args, train_unet, train_text_encoder,
                   ema_created, epoch, step, acc_step, end_of_dataloader,
                   sync_gradients, global_step, gpu_work, forwards, micro,
                   optimizer_steps, ema_steps, metrics, saves, dirs, files,
                   sample_failed, lossVars, examples,
                   workerVars, groupVars>>

\* What the dataset yields for its k-th item: tokenized prompts (not padded)
\* and image tensors, here named by their origin.
InstancePrompts == {<<"sks">>, <<"sks", "dog">>}
ClassPrompts == {<<"dog">>, <<"a", "dog">>}
DatasetExample(k, ip, cp) ==
    [instance_prompt_ids |-> ip,
     class_prompt_ids |-> cp,
     unconditional_prompt_ids |-> <<" ">>,
     instance_images |-> <<"instance", k>>,
     class_images |-> <<"class", k>>]

InitCollate ==
    /\ scenario = "collate"
    /\ pc = "collate"
    /\ IdleRun
    /\ IdleLoss
    /\ IdleWorkers
    /\ IdleGroups
    /\ draws = <<>>
    /\ batch = <<>>
    /\ \E wp \in BOOLEAN, prob \in Probabilities :
          args = [with_prior_preservation |-> wp,
                  conditioning_dropout_prob |-> prob]
    /\ \E n \in BatchSizes :
          \E ip \in [1..n -> InstancePrompts], cp \in [1..n -> ClassPrompts] :
             examples = [k \in 1..n |-> DatasetExample(k, ip[k], cp[k])]

NextCollate == Collate

SpecCollate == InitCollate /\ [][NextCollate]_vars

\* The conditioning of slot i before dropout and padding.
OriginalIds(i) ==
    IF i <= Len(examples)
       THEN examples[i].instance_prompt_ids
       ELSE examples[i - Len(examples)].class_prompt_ids

\* The unconditional encoding that belongs to slot i.
UnconditionalIds(i) ==
    examples[((i - 1) % Len(examples)) + 1].unconditional_prompt_ids

\* C9: with dropout probability 1.0 every slot of the collated batch holds
\* the (padded) unconditional encoding; with probability 0.0 every slot holds
\* its own (padded) conditioning, as without dropout.
C9_DropoutExtremes ==
    pc = "collated" =>
        /\ Len(batch.input_ids) =
              (IF args.with_prior_preservation THEN 2 ELSE 1) * Len(examples)
        /\ args.conditioning_dropout_prob = Resolution =>
              \A i \in DOMAIN batch.input_ids :
                  batch.input_ids[i] = Pad(UnconditionalIds(i))
        /\ args.conditioning_dropout_prob = 0 =>
              \A i \in DOMAIN batch.input_ids :
                  batch.input_ids[i] = Pad(OriginalIds(i))

C9_Witness ==
    /\ pc = "collated"
    /\ args.conditioning_dropout_prob = Resolution
    /\ args.with_prior_preservation
    /\ Len(examples) = 2
    /\ draws = <<0, Resolution, 1, Resolution>>
    /\ batch.input_ids[4] = <<" ", "<pad>", "<pad>">>

\* Slot i of the collated batch holds the unconditional encoding.
Replaced(i) == batch.input_ids[i] = Pad(UnconditionalIds(i))

\* C17: with prior preservation and a dropout probability strictly between
\* 0 and 1, the instance slot i of a collated batch of n examples holds the
\* unconditional encoding iff the class slot n + i does.
C17_DropoutSameOnBothHalves ==
    (/\ pc = "collated"
     /\ args.with_prior_preservation
     /\ args.conditioning_dropout_prob > 0
     /\ args.conditioning_dropout_prob < Resolution) =>
        \A i \in 1..Len(examples) :
            Replaced(i) <=> Replaced(Len(examples) + i)

\* C18: with prior preservation a collated batch of n examples has 2n slots,
\* input ids and pixel values alike: slot i holds instance example i and slot
\* n + i class example i (their padded prompt, or the unconditional encoding
\* where and only where the dropout replaced it), so the first half of the
\* midpoint split is the instance examples and the second the class examples.
C18_InstanceHalfThenClassHalf ==
    (pc = "collated" /\ args.with_prior_preservation) =>
        LET n == Len(examples)
            dropped(i) == /\ draws # <<>>
                          /\ Dropped(draws[i], args.conditioning_dropout_prob)
        IN  /\ Len(batch.input_ids) = 2 * n
            /\ Len(batch.pixel_values) = 2 * n
            /\ \A i \in 1..n :
                  /\ batch.pixel_values[i] = examples[i].instance_images
                  /\ batch.pixel_values[n + i] = examples[i].class_images
                  /\ batch.input_ids[i] =
                        (IF dropped(i)
                            THEN Pad(examples[i].unconditional_prompt_ids)
                            ELSE Pad(examples[i].instance_prompt_ids))
                  /\ batch.input_ids[n + i] =
                        (IF dropped(n + i)
                            THEN Pad(examples[i].unconditional_prompt_ids)
                            ELSE Pad(examples[i].class_prompt_ids))
            /\ Chunk(batch.pixel_values)[1] =
                  [i \in 1..n |-> examples[i].instance_images]
            /\ Chunk(batch.pixel_values)[2] =
                  [i \in 1..n |-> examples[i].class_images]

C18_Witness ==
    /\ pc = "collated"
    /\ args.with_prior_preservation
    /\ args.conditioning_dropout_prob = 1
    /\ Len(examples) = 2
    /\ draws = <<0, Resolution, Resolution, 1>>
    /\ batch.pixel_values =
          <<<<"instance", 1>>, <<"instance", 2>>, <<"class", 1>>, <<"class", 2>>>>

(***************************************************************************)
(* Several processes.  accelerate launches main() once per process; the    *)
(* processes share the file system and meet in the collectives: the        *)
(* gradient all-reduce of a synchronizing backward pass (line 679) and     *)
(* accelerator.wait_for_everyone() (line 742).  Every other step of main() *)
(* is local to its process.  procs[p] holds the locals of process p;       *)
(* barrier_step and since_barrier record, for each process, the            *)
(* global_step with which it last left wait_for_everyone and the           *)
(* micro-batches it has started since.  The specification starts at        *)
(* line 98, with arguments that pass the tests of the setup and without    *)
(* adapters, and follows the steps that write below output_dir or take     *)
(* part in a collective.                                                   *)
(***************************************************************************)
NumProcesses == 2   \* accelerator.num_processes

Processes == 0..(NumProcesses - 1)

\* Faulty variant of the guards of lines 518 and 744: no process is excluded.
IsAnyProcess(p) == TRUE

\* accelerator.is_main_process: the process of index 0.
IsMainProcess(p) == p = 0

\* accelerator.prepare shards the dataloader: every process iterates over
\* the same number of batches.
ShardLen(p, len) == len

Proc(p) == procs[p]

SetProc(p, r) == procs' = [procs EXCEPT ![p] = r]

\* Lines 107-112, in every process: os.makedirs(output_dir) and args.yaml.
WCreateOutputDir(p) ==
    /\ Proc(p).pc = "output_dir"
    /\ fs_writes' = fs_writes \cup {[by |-> p, path |-> <<>>],
                                    [by |-> p, path |-> <<"args.yaml">>]}
    /\ SetProc(p, [Proc(p) EXCEPT !.pc = "epoch"])
    /\ UNCHANGED <<scenario, runVars, lossVars, collateVars, groupVars,
                   allreduce, barrier>>

\* Line 623.
WEpochLoop(p) ==
    /\ Proc(p).pc = "epoch"
    /\ IF Proc(p).epoch < args.num_train_epochs
          THEN SetProc(p, [Proc(p) EXCEPT !.step = 0, !.pc = "batch"])
          ELSE SetProc(p, [Proc(p) EXCEPT !.pc = "final"])
    /\ UNCHANGED <<scenario, runVars, lossVars, collateVars, groupVars,
                   allreduce,
                   barrier, fs_writes>>

\* Line 630.
WNextBatch(p) ==
    /\ Proc(p).pc = "batch"
    /\ LET len == ShardLen(p, args.len_dataloader)
       IN  IF Proc(p).step < len
              THEN SetProc(p, [Proc(p) EXCEPT
                                 !.end_of_dataloader = (Proc(p).step = len - 1),
                                 !.pc = "train"])
              ELSE SetProc(p, [Proc(p) EXCEPT !.pc = "epoch_end"])
    /\ UNCHANGED <<scenario, runVars, lossVars, collateVars, groupVars,
                   allreduce,
                   barrier, fs_writes>>

\* Lines 632-679: the forward pass and the loss of a micro-batch; a backward
\* pass that synchronizes waits in the all-reduce for the other processes,
\* one that only accumulates is local.
WForward(p) ==
    /\ Proc(p).pc = "train"
    /\ LET sync == SyncNow(Proc(p).acc_step, Proc(p).end_of_dataloader,
                           args.gradient_accumulation_steps)
       IN  /\ SetProc(p, [Proc(p) EXCEPT
                            !.sync_gradients = sync,
                            !.acc_step = NextAccStep(Proc(p).acc_step,
                                                     Proc(p).end_of_dataloader),
                            !.micro = Proc(p).micro + 1,
                            !.since_barrier = Proc(p).since_barrier + 1,
                            !.pc = IF sync THEN "allreduce" ELSE "sync"])
           /\ allreduce' = IF sync THEN allreduce \cup {p} ELSE allreduce
    /\ UNCHANGED <<scenario, runVars, lossVars, collateVars, groupVars,
                   barrier, fs_writes>>

\* Line 679: the all-reduce completes once every process has entered it; the
\* processes go on to lines 689-706.
AllReduce ==
    /\ allreduce = Processes
    /\ procs' = [p \in Processes |-> [Proc(p) EXCEPT !.pc = "sync"]]
    /\ allreduce' = {}
    /\ UNCHANGED <<scenario, runVars, lossVars, collateVars, groupVars,
                   barrier, fs_writes>>

\* Faulty variant of line 709: the step is counted on the main process only.
IncrementsOnMainOnly(p, synced) == synced /\ IsMainProcess(p)

\* Line 709: the test that guards global_step += 1, in every process.
IncrementsGlobalStep(p, synced) == synced

\* Lines 709-714.
WSyncStep(p) ==
    /\ Proc(p).pc = "sync"
    /\ IF IncrementsGlobalStep(p, Proc(p).sync_gradients)
          THEN SetProc(p, [Proc(p) EXCEPT
                             !.global_step = Proc(p).global_step + 1,
                             !.pc = IF SaveDue(Proc(p).global_step + 1,
                                               args.save_interval,
                                               args.save_min_steps)
                                       THEN "save" ELSE "log"])
          ELSE SetProc(p, [Proc(p) EXCEPT !.pc = "log"])
    /\ UNCHANGED <<scenario, runVars, lossVars, collateVars, groupVars,
                   allreduce,
                   barrier, fs_writes>>

\* Lines 516-609, save_weights(step) in process p; after it, main continues
\* at next.  Only the main process enters the body (line 518); saved lists
\* the calls in which the process entered it.
WSaveWeights(p, s, kind, next) ==
    IF IsMainProcess(p)
       THEN \E rendered \in BOOLEAN :
               LET d == SaveDir(s)
                   weights == WeightFiles(d, args.lora_unet_layer,
                                          args.lora_text_layer)
                   sample_dir == IF args.save_n_sample > 0
                                    THEN {<<d, "samples">>} ELSE {}
                   sample == IF args.save_n_sample > 0 /\ rendered
                                THEN {SampleFile(d)} ELSE {}
               IN  /\ fs_writes' = fs_writes \cup
                         {[by |-> p, path |-> f] :
                             f \in {<<d>>} \cup weights \cup sample_dir \cup sample}
                   /\ SetProc(p, [Proc(p) EXCEPT
                         !.saved = Append(Proc(p).saved,
                                          [step |-> s, kind |-> kind]),
                         !.pc = IF args.save_n_sample > 0 /\ ~rendered
                                   THEN "error" ELSE next])
       ELSE /\ fs_writes' = fs_writes
            /\ SetProc(p, [Proc(p) EXCEPT !.pc = next])

\* Line 714.
WSaveInLoop(p) ==
    /\ Proc(p).pc = "save"
    /\ WSaveWeights(p, Proc(p).global_step, "loop", "log")
    /\ UNCHANGED <<scenario, runVars, lossVars, collateVars, groupVars,
                   allreduce, barrier>>

\* Lines 716-740: the metrics, then the max-step test.
WLogMetrics(p) ==
    /\ Proc(p).pc = "log"
    /\ IF MaxStepsReached(Proc(p).global_step, args.max_train_steps)
          THEN SetProc(p, [Proc(p) EXCEPT !.pc = "epoch_end"])
          ELSE SetProc(p, [Proc(p) EXCEPT !.step = Proc(p).step + 1,
                                          !.pc = "batch"])
    /\ UNCHANGED <<scenario, runVars, lossVars, collateVars, groupVars,
                   allreduce,
                   barrier, fs_writes>>

\* Line 742: the process enters accelerator.wait_for_everyone().
WEpochEnd(p) ==
    /\ Proc(p).pc = "epoch_end"
    /\ barrier' = barrier \cup {p}
    /\ SetProc(p, [Proc(p) EXCEPT !.pc = "waiting"])
    /\ UNCHANGED <<scenario, runVars, lossVars, collateVars, groupVars,
                   allreduce, fs_writes>>

\* Line 742: the barrier opens once every process has entered it; the
\* processes go on to the next epoch.
WaitForEveryone ==
    /\ barrier = Processes
    /\ procs' = [p \in Processes |->
                    [Proc(p) EXCEPT !.epoch = Proc(p).epoch + 1,
                                    !.barrier_step = Proc(p).global_step,
                                    !.since_barrier = 0,
                                    !.pc = "epoch"]]
    /\ barrier' = {}
    /\ UNCHANGED <<scenario, runVars, lossVars, collateVars, groupVars,
                   allreduce, fs_writes>>

\* Lines 744-745.
WFinalSave(p) ==
    /\ Proc(p).pc = "final"
    /\ WSaveWeights(p, Proc(p).global_step, "final", "end")
    /\ UNCHANGED <<scenario, runVars, lossVars, collateVars, groupVars,
                   allreduce, barrier>>

\* Line 747.
WEndTraining(p) ==
    /\ Proc(p).pc = "end"
    /\ SetProc(p, [Proc(p) EXCEPT !.pc = "done"])
    /\ UNCHANGED <<scenario, runVars, lossVars, collateVars, groupVars,
                   allreduce,
                   barrier, fs_writes>>

\* The locals of main() in a process that has reached line 98.
InitProc ==
    [pc |-> "output_dir", epoch |-> 0, step |-> 0, acc_step |-> 0,
     end_of_dataloader |-> FALSE, sync_gradients |-> FALSE,
     global_step |-> 0, micro |-> 0, barrier_step |-> -1,
     since_barrier |-> 0, saved |-> <<>>]

InitWorkers ==
    /\ scenario = "workers"
    /\ pc = "workers"
    /\ IdleRun
    /\ IdleLoss
    /\ IdleCollate
    /\ IdleGroups
    /\ procs = [p \in Processes |-> InitProc]
    /\ allreduce = {}
    /\ barrier = {}
    /\ fs_writes = {}
    /\ \E accumulation \in AccumulationValues, len \in LenValues,
          given \in MaxStepsGiven, max_steps \in MaxStepsValues,
          epochs \in EpochValues,
          save_interval \in IntervalValues, save_min_steps \in MinStepsValues,
          save_n_sample \in 0..1 :
          LET mts == MaxTrainSteps(given, max_steps, epochs, len, accumulation)
          IN  args = [gradient_accumulation_steps |-> accumulation,
                      len_dataloader |-> len,
                      max_train_steps |-> mts,
                      num_train_epochs |-> NumTrainEpochs(mts, len, accumulation),
                      save_interval |-> save_interval,
                      save_min_steps |-> save_min_steps,
                      lora_unet_layer |-> FALSE,
                      lora_text_layer |-> FALSE,
                      save_n_sample |-> save_n_sample]

NextWorkers ==
    \/ \E p \in Processes :
          \/ WCreateOutputDir(p)
          \/ WEpochLoop(p)
          \/ WNextBatch(p)
          \/ WForward(p)
          \/ WSyncStep(p)
          \/ WSaveInLoop(p)
          \/ WLogMetrics(p)
          \/ WEpochEnd(p)
          \/ WFinalSave(p)
          \/ WEndTraining(p)
    \/ AllReduce
    \/ WaitForEveryone

SpecWorkers == InitWorkers /\ [][NextWorkers]_vars

(***************************************************************************)
(* Properties of a run of several processes.                               *)
(***************************************************************************)
MainProcess == CHOOSE p \in Processes : IsMainProcess(p)

\* C11: every write below the output directory is made by the main process,
\* and no path is written by two processes.
C11_OnlyMainProcessWrites ==
    /\ \A w \in fs_writes : IsMainProcess(w.by)
    /\ \A v \in fs_writes : \A w \in fs_writes :
          v.path = w.path => v.by = w.by

\* The main process is about to write the checkpoint of step s.
StartsSave(s) ==
    /\ Proc(MainProcess).pc \in {"save", "final"}
    /\ Proc(MainProcess).global_step = s

\* Every process has left a wait_for_everyone with global_step = s and has
\* started no micro-batch since.
AllWaitedAt(s) ==
    \A p \in Processes :
        /\ Proc(p).barrier_step = s
        /\ Proc(p).since_barrier = 0
        /\ Proc(p).global_step = s

\* C14: whenever the main process starts to write the checkpoint of step s,
\* in the loop or at the end, every process has waited at a barrier with
\* global_step = s and has processed no micro-batch since that barrier.
C14_SaveAfterFullBarrier ==
    \A s \in 0..Proc(MainProcess).global_step :
        StartsSave(s) => AllWaitedAt(s)

SameGlobalStep ==
    \A p \in Processes : \A q \in Processes :
        Proc(p).global_step = Proc(q).global_step

AllAt(position) == \A p \in Processes : Proc(p).pc = position

\* C19: global_step never decreases in any process; whenever all processes
\* are together in the gradient all-reduce or in wait_for_everyone, and when
\* all have finished, they hold the same global_step.
C19_GlobalStepInLockstep ==
    /\ []((AllAt("allreduce") \/ AllAt("waiting") \/ AllAt("done"))
             => SameGlobalStep)
    /\ [][\A p \in Processes :
             Proc(p)'.global_step >= Proc(p).global_step]_vars

C19_Witness ==
    /\ AllAt("allreduce")
    /\ args.gradient_accumulation_steps = 2
    /\ \A p \in Processes : Proc(p).global_step = 1 /\ Proc(p).epoch = 1

IsFinalSave(x) == x.kind = "final"

FinalSavesOf(p) == SelectSeq(Proc(p).saved, IsFinalSave)

\* The last save of the main process is the final one, for its global_step.
EndsWithFinalSave ==
    LET saved == Proc(MainProcess).saved
    IN  /\ Len(FinalSavesOf(MainProcess)) = 1
        /\ saved[Len(saved)] =
              [step |-> Proc(MainProcess).global_step, kind |-> "final"]

\* C24: a process other than the main one never saves and no process saves
\* finally twice; the main process starts the final save with all epochs
\* done and every process past the last wait_for_everyone with the final
\* global_step; once the main process is past line 745 its last save is the
\* one final save, for the final global_step, whatever save_interval and
\* save_min_steps are.
C24_OneFinalSaveAfterLastBarrier ==
    /\ \A p \in Processes :
          /\ Len(FinalSavesOf(p)) <= 1
          /\ p # MainProcess => Proc(p).saved = <<>>
    /\ Proc(MainProcess).pc = "final" =>
          /\ Proc(MainProcess).epoch = args.num_train_epochs
          /\ FinalSavesOf(MainProcess) = <<>>
          /\ AllWaitedAt(Proc(MainProcess).global_step)
    /\ Proc(MainProcess).pc \in {"end", "done"} => EndsWithFinalSave

C24_Witness ==
    /\ AllAt("done")
    /\ args.save_interval = 2
    /\ args.save_min_steps = 2
    /\ Proc(MainProcess).global_step = 1
    /\ Proc(MainProcess).saved = <<[step |-> 1, kind |-> "final"]>>

(***************************************************************************)
(* The learning rates, lines 290-320 and 724-728.  A rate is a whole       *)
(* number of units; a parameter group is the number of trainable           *)
(* parameters of a model and the rate of its "lr" entry.  The scheduler    *)
(* multiplies the rate of every group by the factor of the current step.   *)
(***************************************************************************)
MaxRate == 2     \* --learning_rate: 1..MaxRate; --learning_rate_text: up to MaxRate + 1
MaxParams == 1   \* trainable parameters of a model: 0..MaxParams
MaxFactor == 2   \* factor of the schedule: 1..MaxFactor

\* Lines 290-293: --lr_scale multiplies the rate by the total batch size.
ScaledLearningRate(learning_rate, lr_scale, accumulation, batch_size, processes) ==
    IF lr_scale
       THEN learning_rate * accumulation * batch_size * processes
       ELSE learning_rate

\* Lines 295-299: the rate of the text encoder defaults to the (scaled) rate.
\* --learning_rate_text is <<>> when not given (None), <<rate>> otherwise.
LearningRateText(learning_rate, learning_rate_text) ==
    IF learning_rate_text = <<>> THEN learning_rate ELSE learning_rate_text[1]

\* Lines 290-299 as a step.
SetLearningRates ==
    /\ pc = "lr"
    /\ \E learning_rate \in 1..MaxRate,
          learning_rate_text \in {<<>>} \cup {<<r>> : r \in 1..(MaxRate + 1)},
          lr_scale \in BOOLEAN, accumulation \in {1, 2},
          train_batch_size \in {1, 2}, num_processes \in {1, 2} :
          LET lr == ScaledLearningRate(learning_rate, lr_scale, accumulation,
                                       train_batch_size, num_processes)
          IN  args' = [lr_scale |-> lr_scale,
                       gradient_accumulation_steps |-> accumulation,
                       train_batch_size |-> train_batch_size,
                       num_processes |-> num_processes,
                       learning_rate |-> lr,
                       learning_rate_text |->
                           LearningRateText(lr, learning_rate_text)]
    /\ pc' = "groups"
    /\ UNCHANGED <<scenario, err, train_unet, train_text_encoder, ema_created,
                   epoch, step, acc_step, end_of_dataloader, sync_gradients,
                   global_step, gpu_work, forwards, micro, optimizer_steps,
                   ema_steps, metrics, saves, dirs, files, sample_failed,
                   lossVars, collateVars, workerVars, groupVars>>

\* Lines 301-311: the group of a model.
ParamGroup(model, params, lr) == [model |-> model, params |-> params, lr |-> lr]

\* Faulty variant of lines 313-317: the group of the text encoder is
\* appended first.
ParamsToOptimizeTextFirst(unet_group, text_group) ==
    (IF text_group.params > 0 THEN <<text_group>> ELSE <<>>)
    \o (IF unet_group.params > 0 THEN <<unet_group>> ELSE <<>>)

\* Lines 305-317: the groups handed to the optimizer, in this order.
ParamsToOptimize(unet_group, text_group) ==
    (IF unet_group.params > 0 THEN <<unet_group>> ELSE <<>>)
    \o (IF text_group.params > 0 THEN <<text_group>> ELSE <<>>)

\* Lines 301-320 as a step; unet_params and text_params are the numbers of
\* parameters with requires_grad.
BuildParamGroups ==
    /\ pc = "groups"
    /\ \E unet_params \in 0..MaxParams, text_params \in 0..MaxParams :
          LET groups == ParamsToOptimize(
                            ParamGroup("unet", unet_params, args.learning_rate),
                            ParamGroup("text_encoder", text_params,
                                       args.learning_rate_text))
          IN  /\ train_unet' = (unet_params > 0)
              /\ train_text_encoder' = (text_params > 0)
              /\ params_to_optimize' = groups
              /\ IF Len(groups) = 0
                    THEN Raise("ValueError: This configuration does not train anything.")
                    ELSE pc' = "training" /\ err' = err
    /\ UNCHANGED <<scenario, args, ema_created, epoch, step, acc_step,
                   end_of_dataloader, sync_gradients, global_step, gpu_work,
                   forwards, micro, optimizer_steps, ema_steps, metrics, saves,
                   dirs, files, sample_failed, lossVars, collateVars,
                   workerVars, logs>>

\* lr_scheduler.get_last_lr(): the current rate of every group of the
\* optimizer, in the order of the groups.
GetLastLr(groups, factor) == [i \in DOMAIN groups |-> groups[i].lr * factor]

\* Lines 724-728: the learning rates of the metrics mapping.
LrLogs(unet_trained, text_trained, last_lr) ==
    IF unet_trained /\ text_trained
       THEN [k \in {"lr/unet", "lr/text"} |->
                IF k = "lr/unet" THEN last_lr[1] ELSE last_lr[2]]
       ELSE [k \in {"lr"} |-> last_lr[1]]

\* Lines 724-728 as a step, at a step of the schedule with the given factor.
LogLearningRates ==
    /\ pc = "training"
    /\ \E factor \in 1..MaxFactor :
          /\ args' = args @@ [factor |-> factor]
          /\ logs' = LrLogs(train_unet, train_text_encoder,
                            GetLastLr(params_to_optimize, factor))
    /\ pc' = "logged"
    /\ UNCHANGED <<scenario, err, train_unet, train_text_encoder, ema_created,
                   epoch, step, acc_step, end_of_dataloader, sync_gradients,
                   global_step, gpu_work, forwards, micro, optimizer_steps,
                   ema_steps, metrics, saves, dirs, files, sample_failed,
                   lossVars, collateVars, workerVars, params_to_optimize>>

InitGroups ==
    /\ scenario = "groups"
    /\ pc = "lr"
    /\ args = NoArgs
    /\ IdleRun
    /\ IdleLoss
    /\ IdleCollate
    /\ IdleWorkers
    /\ IdleGroups

NextGroups ==
    \/ SetLearningRates
    \/ BuildParamGroups
    \/ LogLearningRates

SpecGroups == InitGroups /\ [][NextGroups]_vars

\* The rate the arguments give to a model.
OwnRate(model) ==
    IF model = "unet" THEN args.learning_rate ELSE args.learning_rate_text

TrainedModels ==
    (IF train_unet THEN {"unet"} ELSE {})
    \cup (IF train_text_encoder THEN {"text_encoder"} ELSE {})

GroupsAreOwnAndNonEmpty ==
    /\ \A i \in DOMAIN params_to_optimize :
          /\ params_to_optimize[i].params > 0
          /\ params_to_optimize[i].lr = OwnRate(params_to_optimize[i].model)
          /\ \A j \in DOMAIN params_to_optimize :
                params_to_optimize[i].model = params_to_optimize[j].model
                    => i = j
    /\ {params_to_optimize[i].model : i \in DOMAIN params_to_optimize}
          = TrainedModels

LoggedRatesAreOwn ==
    IF train_unet /\ train_text_encoder
       THEN logs = [k \in {"lr/unet", "lr/text"} |->
                       IF k = "lr/unet"
                          THEN OwnRate("unet") * args.factor
                          ELSE OwnRate("text_encoder") * args.factor]
       ELSE IF train_unet
               THEN logs = [k \in {"lr"} |-> OwnRate("unet") * args.factor]
               ELSE logs = [k \in {"lr"} |->
                               OwnRate("text_encoder") * args.factor]

\* C25: the optimizer gets one group for each model that has trainable
\* parameters, none of them empty, each with the rate of its own model; the
\* logged lr/unet and lr/text are the current rates of the unet group and of
\* the text-encoder group, and with one trained model the logged lr is the
\* current rate of that model's group.
C25_GroupRatesAndLoggedRates ==
    /\ pc \in {"training", "logged"} => GroupsAreOwnAndNonEmpty
    /\ pc = "logged" => LoggedRatesAreOwn

C25_Witness ==
    /\ pc = "logged"
    /\ train_unet /\ train_text_encoder
    /\ args.lr_scale
    /\ args.learning_rate = 4
    /\ args.learning_rate_text = 3
    /\ args.factor = 2
    /\ logs["lr/unet"] = 8
    /\ logs["lr/text"] = 6

====
